---- MODULE Spec2Model ----
(***************************************************************************)
(* Model of the Crypto Info API (app/services/openai_service.py,           *)
(* app/services/report_generator.py, app/api/routes.py, app/db/mongodb.py).*)
(*                                                                         *)
(* Every coroutine of the service is cut at its await points: one action   *)
(* is the code that runs between two suspensions.  Upstream providers      *)
(* (Coingecko search/detail, Ethplorer, Moralis, OpenAI, MongoDB) are the  *)
(* environment: each response is drawn from a small set.  Strings that the *)
(* code converts (upper(), lower(), f-string prefixes) are sequences of    *)
(* one-character strings so that the conversions are computed.             *)
(*                                                                         *)
(* Spec serves one request against providers that may answer anything.     *)
(* SpecIsolated serves several requests at once against providers whose    *)
(* answer is a function of the request.                                    *)
(***************************************************************************)
EXTENDS Integers, Sequences, FiniteSets, TLC

VARIABLES
    client,   \* app.db.mongodb.client: the process-wide database handle
    db,       \* the reports collection: sequence of inserted documents
    slots,    \* the requests served during the life of the process
    providers, \* the upstream providers: any answer, or a fixed one per request
    req       \* per request: the locals and position of its coroutine stack

vars == <<client, db, slots, providers, req>>

(***************************************************************************)
(* Strings                                                                 *)
(***************************************************************************)
LowerLetters ==
    <<"a","b","c","d","e","f","g","h","i","j","k","l","m",
      "n","o","p","q","r","s","t","u","v","w","x","y","z">>

UpperLetters ==
    <<"A","B","C","D","E","F","G","H","I","J","K","L","M",
      "N","O","P","Q","R","S","T","U","V","W","X","Y","Z">>

UpperChar(c) ==
    IF \E i \in DOMAIN LowerLetters : LowerLetters[i] = c
    THEN UpperLetters[CHOOSE i \in DOMAIN LowerLetters : LowerLetters[i] = c]
    ELSE c

LowerChar(c) ==
    IF \E i \in DOMAIN UpperLetters : UpperLetters[i] = c
    THEN LowerLetters[CHOOSE i \in DOMAIN UpperLetters : UpperLetters[i] = c]
    ELSE c

\* str.upper() and str.lower()
Upper(s) == [i \in DOMAIN s |-> UpperChar(s[i])]

Lower(s) == [i \in DOMAIN s |-> LowerChar(s[i])]

\* Python's None, and the truth value of a string-or-None
None == "None"

Truthy(x) == x # None /\ x # ""

(***************************************************************************)
(* Inputs                                                                  *)
(***************************************************************************)
ETH == <<"E","T","H">>
ETHEREUM == <<"E","T","H","E","R","E","U","M">>
SOL == <<"S","O","L">>
SOLANA == <<"S","O","L","A","N","A">>
XLM == <<"X","L","M">>
STELLAR == <<"S","T","E","L","L","A","R">>

\* casings of the special-cased tickers
NativeSpellings ==
    { ETH, <<"e","t","h">>, <<"E","t","h">>, ETHEREUM,
      <<"e","t","h","e","r","e","u","m">>, <<"E","t","h","e","r","e","u","m">> }

UnsupportedSpellings ==
    { SOL, <<"s","o","l">>, <<"S","o","l">>, SOLANA, <<"s","o","l","a","n","a">>,
      XLM, <<"x","l","m">>, <<"X","l","M">>, STELLAR, <<"S","t","e","l","l","a","r">> }

\* tickers that take the full resolution pipeline
OrdinarySymbols == { <<"B","t","c">> }

Symbols == NativeSpellings \cup UnsupportedSpellings \cup OrdinarySymbols

SupportedChains == {"eth", "bsc", "polygon", "avalanche", "fantom"}

Chains == SupportedChains \cup {"arbitrum"}

DefaultChain == "eth"

(***************************************************************************)
(* Program constants                                                       *)
(***************************************************************************)
\* PLATFORM_MAPPING: chain parameter -> Coingecko platform key
PLATFORM_MAPPING ==
    ("eth" :> "ethereum") @@ ("bsc" :> "binance-smart-chain") @@
    ("polygon" :> "polygon") @@ ("avalanche" :> "avalanche") @@
    ("fantom" :> "fantom")

\* retries = 3 in get_token_id
Retries == 3

\* asyncio.sleep(2) in get_token_id
SleepSeconds == 2

weth_address == "0xC02aaa39b223FE8D0A0E5C4F27eAD9083C756Cc2"

\* a comparison that forgets upper()
IsNativeEthExact(symbol) == symbol \in {ETH, ETHEREUM}

\* symbol.upper() in ["ETH", "ETHEREUM"]
IsNativeEth(symbol) == Upper(symbol) \in {ETH, ETHEREUM}

\* a comparison that forgets upper()
IsUnsupportedExact(symbol) == symbol \in {SOL, SOLANA, XLM, STELLAR}

\* symbol.upper() in ["SOL", "SOLANA", "XLM", "STELLAR"]
IsUnsupported(symbol) == Upper(symbol) \in {SOL, SOLANA, XLM, STELLAR}

\* the variants tried in another order
wrapped_variants_reordered(symbol) ==
    << <<"w">> \o Lower(symbol),
       <<"w","r","a","p","p","e","d"," ">> \o symbol,
       <<"w","r","a","p","p","e","d","-">> \o Lower(symbol) >>

\* [f"wrapped {symbol}", f"w{symbol.lower()}", f"wrapped-{symbol.lower()}"]
wrapped_variants(symbol) ==
    << <<"w","r","a","p","p","e","d"," ">> \o symbol,
       <<"w">> \o Lower(symbol),
       <<"w","r","a","p","p","e","d","-">> \o Lower(symbol) >>

\* the query of a stage: 0 is the primary attempt, 1..3 the wrapped variants
StageQuery(symbol, stage) ==
    IF stage = 0 THEN symbol ELSE wrapped_variants(symbol)[stage]

LastVariantStage(symbol) == Len(wrapped_variants(symbol))

\* the query string of the search URL: symbol.lower()
SearchQuery(query) == Lower(query)

\* PLATFORM_MAPPING.get(chain, chain)
platform_key_unmapped(chain) ==
    IF chain \in DOMAIN PLATFORM_MAPPING THEN PLATFORM_MAPPING[chain] ELSE chain

\* PLATFORM_MAPPING.get(chain, "ethereum")
platform_key(chain) ==
    IF chain \in DOMAIN PLATFORM_MAPPING THEN PLATFORM_MAPPING[chain] ELSE "ethereum"

\* dict.get(key, default)
DictGet(d, k, default) == IF k \in DOMAIN d THEN d[k] ELSE default

Restrict(f, S) == [k \in S |-> f[k]]

EmptyDict == [k \in {} |-> None]

(***************************************************************************)
(* The environment: what the upstream providers may answer                 *)
(***************************************************************************)
\* longest result list a provider returns
MaxCoins == 2

\* the first n results of a provider's ranking, for every n up to MaxCoins
Prefixes(ranking) ==
    { SubSeq(ranking, 1, k) : k \in 0..(IF MaxCoins < Len(ranking) THEN MaxCoins ELSE Len(ranking)) }

\* the ids of the coins Coingecko ranks for a query, best match first
CoinRanking == <<"bitcoin", "wrapped-bitcoin", "bitcoin-cash", "bitcoin-gold">>

\* Coingecko /search: exc is an exception of client.get or of response.json()
SearchOutcomes ==
    { [exc |-> TRUE, status |-> 0, coins |-> <<>>] }
    \cup { [exc |-> FALSE, status |-> s, coins |-> <<>>] : s \in {429, 500} }
    \cup { [exc |-> FALSE, status |-> 200, coins |-> c] : c \in Prefixes(CoinRanking) }

\* the "platforms" object of Coingecko /coins/{id}
PlatformMaps ==
    { EmptyDict,
      ("ethereum" :> "0xA1"),
      ("ethereum" :> ""),
      ("binance-smart-chain" :> "0xB2") @@ ("polygon" :> "0xB3")
        @@ ("avalanche" :> "0xB4") @@ ("fantom" :> "0xB5") }

\* the token_id a direct caller passes to _get_contract_from_coingecko
TokenIds == {None, "", "bitcoin"}

DetailOutcomes ==
    { [exc |-> TRUE, status |-> 0, platforms |-> EmptyDict] }
    \cup { [exc |-> FALSE, status |-> s, platforms |-> EmptyDict] : s \in {404, 429} }
    \cup { [exc |-> FALSE, status |-> 200, platforms |-> p] : p \in PlatformMaps }

\* Ethplorer /search: tokens is the list of the results' "address" values,
\* None for a result without one
EthplorerRankings ==
    { <<"0xE1", "0xE2", "0xE3", "0xE4">>, <<None, "0xE1", "0xE2", "0xE3">> }

EthplorerOutcomes ==
    { [exc |-> TRUE, status |-> 0, tokens |-> <<>>] }
    \cup { [exc |-> FALSE, status |-> s, tokens |-> <<>>] : s \in {429, 500} }
    \cup { [exc |-> FALSE, status |-> 200, tokens |-> t] :
             t \in UNION { Prefixes(ranking) : ranking \in EthplorerRankings } }

\* a complete Moralis price payload
FullPayload ==
    [ usdPrice |-> "65000", priceChange |-> "120", priceChangePercent |-> "2.5",
      highPrice |-> "66000", lowPrice |-> "64000", volume |-> "1000000",
      tokenName |-> "Bitcoin", tokenSymbol |-> "BTC", tokenLogo |-> "logo.png",
      tokenDecimals |-> "8", nativePrice |-> "30 ETH", exchangeName |-> "Uniswap",
      exchangeAddress |-> "0xEX", tokenAddress |-> "0xTA" ]

Payloads ==
    { FullPayload,
      Restrict(FullPayload, DOMAIN FullPayload \ {"volume", "tokenName"}),
      [FullPayload EXCEPT !["tokenAddress"] = ""],
      EmptyDict }

\* response bodies: kind is "object" (a JSON object), "array" (valid JSON that
\* is no object) or "invalid" (not JSON)
ErrorBodies == { [kind |-> "invalid", data |-> EmptyDict] }

OkBodies ==
    ErrorBodies \cup { [kind |-> "array", data |-> EmptyDict] }
    \cup { [kind |-> "object", data |-> p] : p \in Payloads }

MoralisOutcomes ==
    { [exc |-> TRUE, status |-> 0, body |-> [kind |-> "invalid", data |-> EmptyDict]] }
    \cup { [exc |-> FALSE, status |-> s, body |-> b] : s \in {429, 500}, b \in ErrorBodies }
    \cup { [exc |-> FALSE, status |-> 200, body |-> b] : b \in OkBodies }

\* OpenAI chat completion of the report prompt: a summary, or an exception
\* (API error, or the completion object rejecting message["content"])
CompletionOutcomes ==
    { [exc |-> TRUE, content |-> ""], [exc |-> FALSE, content |-> "analysis"] }

\* OpenAI chat completion of /openai/chat: plain text or a function call; exc
\* is an exception of the call, of json.loads(arguments) or of the dispatch
FunctionNames == {"get_crypto_price", "generate_crypto_report", "get_weather"}

ChatOutcomes ==
    { [exc |-> TRUE, call |-> FALSE, name |-> "", symbol |-> <<>>],
      [exc |-> FALSE, call |-> FALSE, name |-> "", symbol |-> <<>>] }
    \cup { [exc |-> FALSE, call |-> TRUE, name |-> n, symbol |-> s] :
             n \in FunctionNames, s \in Symbols }

\* providers that may answer anything at any time
AnyProviders == [deterministic |-> FALSE]

\* a search that is rate limited, one that finds the coin, one that finds none
RateLimited == [exc |-> FALSE, status |-> 429, coins |-> <<>>]

Found == [exc |-> FALSE, status |-> 200, coins |-> <<"bitcoin">>]

NotFound == [exc |-> FALSE, status |-> 200, coins |-> <<>>]

\* the queries get_token_id sends for the symbol Btc: Btc itself, and its
\* wrapped variants
PrimaryQuery == <<"b","t","c">>

WrappedQueries ==
    { <<"w","r","a","p","p","e","d"," ","b","t","c">>,
      <<"w","b","t","c">>,
      <<"w","r","a","p","p","e","d","-","b","t","c">> }

\* a coin that Coingecko knows on Ethereum and on no other platform
OnEthereumOnly == [exc |-> FALSE, status |-> 200, platforms |-> ("ethereum" :> "0xA1")]

\* a Moralis that prices the address Coingecko knows and is rate limited
\* for the one Ethplorer knows
PricedAddresses ==
    ("0xA1" :> [exc |-> FALSE, status |-> 200,
                body |-> [kind |-> "object", data |-> FullPayload]])
    @@ ("0xE1" :> [exc |-> FALSE, status |-> 429,
                   body |-> [kind |-> "invalid", data |-> EmptyDict]])

\* deterministic providers: every request always gets the same response
\* (search by query, detail by token id, Ethplorer by symbol, Moralis by
\* address)
DeterministicProviders ==
    { [ deterministic |-> TRUE,
        search |-> [q \in {PrimaryQuery} \cup WrappedQueries |->
                       IF q = PrimaryQuery THEN a ELSE b],
        detail |-> [id \in {"bitcoin"} |-> OnEthereumOnly],
        ethplorer |-> [symbol \in OrdinarySymbols |-> e],
        moralis |-> PricedAddresses ] :
      a \in {RateLimited, Found}, b \in {NotFound, Found},
      e \in { [exc |-> FALSE, status |-> 500, tokens |-> <<>>],
              [exc |-> FALSE, status |-> 200, tokens |-> <<"0xE1">>] } }

(***************************************************************************)
(* Requests                                                                *)
(*   pc      the await (or blocking call) the coroutine is suspended at    *)
(*   stack   the coroutines of the request, innermost last                 *)
(*   stage   get_token_contract: 0 primary, 1..3 index into the variants   *)
(*   attempt get_token_id: the loop variable                               *)
(*   answers what the provider answered to the requests of the running    *)
(*           get_token_id or _get_contract_from_coingecko (gone when it    *)
(*           returns to get_token_contract), or to the Ethplorer request   *)
(*   response  get_crypto_price / get_crypto_metadata: the Moralis answer  *)
(*   trace   what the request did: coroutine entries and upstream calls    *)
(***************************************************************************)
NoValue == [kind |-> "unset"]

NoException == [type |-> "", fn |-> ""]

StrVal(s) == [kind |-> "str", v |-> s]

DictVal(d) == [kind |-> "dict", v |-> d]

\* result["choices"][0]["message"] of a completion without a handled call
RawCompletion == [kind |-> "completion"]

NoResponse == [exc |-> FALSE, status |-> 0, body |-> [kind |-> "none", data |-> EmptyDict]]

IdleRequest ==
    [ pc |-> "idle", stack |-> <<>>, entry |-> "", symbol |-> <<>>, chain |-> "",
      stage |-> 0, attempt |-> 0, answers |-> <<>>, token_id |-> None,
      contract_address |-> None, response |-> NoResponse,
      data |-> EmptyDict, report |-> EmptyDict,
      status |-> "idle", ret |-> NoValue, exc |-> NoException, trace |-> <<>> ]

Top(rq) == IF rq.stack = <<>> THEN "" ELSE rq.stack[Len(rq.stack)]

Caller(rq) == IF Len(rq.stack) < 2 THEN "" ELSE rq.stack[Len(rq.stack) - 1]

Push(rq, fn) == [rq EXCEPT !.stack = Append(@, fn)]

Pop(rq) == [rq EXCEPT !.stack = SubSeq(@, 1, Len(@) - 1)]

Log(rq, e) == [rq EXCEPT !.trace = Append(@, e)]

\* the outermost coroutine returns value
Finish(rq, value) ==
    [rq EXCEPT !.pc = "done", !.stack = <<>>, !.status = "returned", !.ret = value]

\* an exception that no frame of the request handles
Raise(rq, type, fn) ==
    [rq EXCEPT !.pc = "done", !.status = "raised", !.exc = [type |-> type, fn |-> fn]]

(***************************************************************************)
(* routes.py: what the callers of generate_crypto_report do with a report  *)
(***************************************************************************)
ReportReturned(rq, report) ==
    IF Caller(rq) = "chat_with_openai"
    THEN [Pop(rq) EXCEPT !.pc = "save_report_to_db", !.report = report]
    ELSE Finish(rq, DictVal(report))

(***************************************************************************)
(* report_generator.py                                                     *)
(***************************************************************************)
\* the keys the prompt template subscripts: data['current_price'], ...
PromptKeys == {"current_price", "price_change_percent", "volume"}

\* generate_crypto_report after get_crypto_price has returned data
ReportAfterPrice(rq, data) ==
    IF PromptKeys \subseteq DOMAIN data
    THEN [rq EXCEPT !.pc = "completion", !.data = data]
    ELSE Raise([rq EXCEPT !.data = data], "KeyError", "generate_crypto_report")

\* the final report
BuildReport(symbol, data, report_summary) ==
    [ symbol |-> symbol,
      current_price |-> DictGet(data, "current_price", "N/A"),
      price_change_percent |-> DictGet(data, "price_change_percent", "N/A"),
      high_24h |-> DictGet(data, "high_24h", "N/A"),
      low_24h |-> DictGet(data, "low_24h", "N/A"),
      volume |-> DictGet(data, "volume", "N/A"),
      source |-> DictGet(data, "source", "Unknown"),
      report_summary |-> report_summary ]

(***************************************************************************)
(* openai_service.py: get_crypto_price and get_crypto_metadata             *)
(***************************************************************************)
\* a chat_with_openai that also saves what get_crypto_price returned
PriceReturnedSaved(rq, data) ==
    IF Caller(rq) = "generate_crypto_report"
    THEN ReportAfterPrice(Pop(rq), data)
    ELSE IF Caller(rq) = "chat_with_openai"
         THEN [Pop(rq) EXCEPT !.pc = "save_report_to_db", !.report = data]
    ELSE Finish(rq, DictVal(data))

\* get_crypto_price returns data to its caller
PriceReturned(rq, data) ==
    IF Caller(rq) = "generate_crypto_report"
    THEN ReportAfterPrice(Pop(rq), data)
    ELSE Finish(rq, DictVal(data))

PriceContractError(symbol, chain) ==
    [ error |-> [ msg |-> "Contract address not found for token {symbol} on chain {chain}. Moralis data unavailable.",
                  symbol |-> symbol, chain |-> chain ] ]

MetadataContractError(symbol, chain) ==
    [ error |-> [ msg |-> "Unable to retrieve contract address for token {symbol} on chain {chain}",
                  symbol |-> symbol, chain |-> chain ] ]

MoralisStatusError(status, text) ==
    [ error |-> [ msg |-> "Moralis API error. Code: {status_code}", code |-> status ],
      response |-> text ]

PriceRecord(symbol, data) ==
    [ symbol |-> symbol,
      current_price |-> DictGet(data, "usdPrice", "N/A"),
      price_change_24h |-> DictGet(data, "priceChange", "N/A"),
      price_change_percent |-> DictGet(data, "priceChangePercent", "N/A"),
      high_24h |-> DictGet(data, "highPrice", "N/A"),
      low_24h |-> DictGet(data, "lowPrice", "N/A"),
      volume |-> DictGet(data, "volume", "N/A"),
      source |-> "Moralis",
      raw_response |-> data ]

MetadataKeys ==
    { "tokenName", "tokenSymbol", "tokenLogo", "tokenDecimals", "nativePrice",
      "usdPrice", "exchangeName", "exchangeAddress", "tokenAddress" }

MetadataRecord(data) == [k \in MetadataKeys |-> DictGet(data, k, None)]

\* get_crypto_price without the status check
PriceFromResponseAnyStatus(rq0, o) ==
    LET rq == [rq0 EXCEPT !.response = o] IN
    IF o.exc THEN Raise(rq, "httpx.TransportError", "get_crypto_price")
    ELSE IF o.body.kind = "invalid"
         THEN PriceReturned(rq, [ error |-> [msg |-> "Invalid JSON response from Moralis API"],
                                  response |-> o.body ])
    ELSE IF o.body.kind = "array" THEN Raise(rq, "AttributeError", "get_crypto_price")
    ELSE PriceReturned(rq, PriceRecord(rq.symbol, o.body.data))

\* get_crypto_price, from the response of Moralis to its return
PriceFromResponse(rq0, o) ==
    LET rq == [rq0 EXCEPT !.response = o] IN
    IF o.exc THEN Raise(rq, "httpx.TransportError", "get_crypto_price")
    ELSE IF o.status # 200 THEN PriceReturned(rq, MoralisStatusError(o.status, o.body))
    ELSE IF o.body.kind = "invalid"
         THEN PriceReturned(rq, [ error |-> [msg |-> "Invalid JSON response from Moralis API"],
                                  response |-> o.body ])
    ELSE IF o.body.kind = "array" THEN Raise(rq, "AttributeError", "get_crypto_price")
    ELSE PriceReturned(rq, PriceRecord(rq.symbol, o.body.data))

\* get_crypto_metadata returning result without testing result["tokenAddress"]
MetadataFromResponseUntested(rq0, o) ==
    LET rq == [rq0 EXCEPT !.response = o] IN
    IF o.exc THEN Raise(rq, "httpx.TransportError", "get_crypto_metadata")
    ELSE IF o.status # 200 THEN Finish(rq, DictVal(MoralisStatusError(o.status, o.body)))
    ELSE IF o.body.kind # "object"
         THEN Finish(rq, DictVal([error |-> [msg |-> "JSON processing error: {e}"]]))
    ELSE Finish(rq, DictVal(MetadataRecord(o.body.data)))

\* get_crypto_metadata, from the response of Moralis to its return
MetadataFromResponse(rq0, o) ==
    LET rq == [rq0 EXCEPT !.response = o] IN
    IF o.exc THEN Raise(rq, "httpx.TransportError", "get_crypto_metadata")
    ELSE IF o.status # 200 THEN Finish(rq, DictVal(MoralisStatusError(o.status, o.body)))
    ELSE IF o.body.kind # "object"
         THEN Finish(rq, DictVal([error |-> [msg |-> "JSON processing error: {e}"]]))
    ELSE IF Truthy(MetadataRecord(o.body.data)["tokenAddress"])
         THEN Finish(rq, DictVal(MetadataRecord(o.body.data)))
    ELSE Finish(rq, DictVal([error |-> [msg |-> "Contract address not found"]]))

\* the pricing request both operations await
AwaitMoralis(rq) == [rq EXCEPT !.pc = "moralis"]

(***************************************************************************)
(* openai_service.py: get_token_contract and its helpers                   *)
(***************************************************************************)
\* callers that do not test the address they get
ContractReturnedUnchecked(rq, contract_address) ==
    LET got == [rq EXCEPT !.contract_address = contract_address]
    IN  IF Caller(rq) \in {"get_crypto_price", "get_crypto_metadata"}
        THEN AwaitMoralis(Pop(got))
        ELSE Finish(got, StrVal(contract_address))

\* get_token_contract returns contract_address to its caller
ContractReturned(rq, contract_address) ==
    LET got == [rq EXCEPT !.contract_address = contract_address]
    IN  IF Caller(rq) = "get_crypto_price"
        THEN IF Truthy(contract_address)
             THEN AwaitMoralis(Pop(got))
             ELSE PriceReturned(Pop(got), PriceContractError(rq.symbol, rq.chain))
        ELSE IF Caller(rq) = "get_crypto_metadata"
        THEN IF Truthy(contract_address)
             THEN AwaitMoralis(Pop(got))
             ELSE Finish(got, DictVal(MetadataContractError(rq.symbol, rq.chain)))
        ELSE Finish(got, StrVal(contract_address))

\* entry of get_token_id(query), up to its first request
EnterTokenId(rq, stage) ==
    Log([Push(rq, "get_token_id") EXCEPT
            !.pc = "search", !.stage = stage, !.attempt = 1, !.answers = <<>>],
        [ev |-> "get_token_id", q |-> StageQuery(rq.symbol, stage)])

\* a failed primary attempt that goes straight to the last wrapped variant
StageResultSkipping(rq, contract_address) ==
    IF Truthy(contract_address) THEN ContractReturned(rq, contract_address)
    ELSE IF rq.stage < LastVariantStage(rq.symbol)
         THEN EnterTokenId(rq, LastVariantStage(rq.symbol))
    ELSE [rq EXCEPT !.pc = "ethplorer", !.stage = LastVariantStage(rq.symbol) + 1]

\* a stage produced contract_address: return it, or go on to the next stage
StageResult(rq, contract_address) ==
    IF Truthy(contract_address) THEN ContractReturned(rq, contract_address)
    ELSE IF rq.stage < LastVariantStage(rq.symbol) THEN EnterTokenId(rq, rq.stage + 1)
    ELSE [rq EXCEPT !.pc = "ethplorer", !.stage = LastVariantStage(rq.symbol) + 1]

\* _get_contract_from_coingecko returns contract_address: to the stage of
\* get_token_contract that called it, or to the caller of a direct call
CoingeckoReturned(rq, contract_address) ==
    IF Top(rq) = "get_token_contract"
    THEN StageResult([rq EXCEPT !.answers = <<>>], contract_address)
    ELSE Finish([rq EXCEPT !.contract_address = contract_address],
                StrVal(contract_address))

\* _get_contract_from_coingecko(token_id, query, chain), up to its request
ContractLookup(rq, token_id) ==
    LET called == Log([rq EXCEPT !.token_id = token_id],
                      [ev |-> "_get_contract_from_coingecko",
                       q |-> StageQuery(rq.symbol, rq.stage)])
    IN  IF Truthy(token_id) THEN [called EXCEPT !.pc = "detail"]
        ELSE CoingeckoReturned(called, None)

\* get_token_id returns token_id: to get_token_contract, which passes it to
\* _get_contract_from_coingecko, or to the caller of a direct call
TokenIdReturned(rq, token_id) ==
    IF Caller(rq) = "get_token_contract"
    THEN ContractLookup([Pop(rq) EXCEPT !.answers = <<>>], token_id)
    ELSE Finish([rq EXCEPT !.token_id = token_id], StrVal(token_id))

\* coins[-1]["id"]
last_coin_id(coins) == coins[Len(coins)]

\* coins[0]["id"]
first_coin_id(coins) == coins[1]

\* if response.status_code != 200: await asyncio.sleep(2); continue
TokenIdFromResponseRetryAll(rq, o) ==
    LET got == [rq EXCEPT !.answers = Append(@, o)]
    IN  IF o.exc THEN Raise(got, "httpx.TransportError", "get_token_id")
        ELSE IF o.status # 200 THEN [got EXCEPT !.pc = "sleep"]
        ELSE IF o.coins = <<>> THEN TokenIdReturned(got, None)
        ELSE TokenIdReturned(got, first_coin_id(o.coins))

\* get_token_id, from the response of the search to the next await
TokenIdFromResponse(rq, o) ==
    LET got == [rq EXCEPT !.answers = Append(@, o)]
    IN  IF o.exc THEN Raise(got, "httpx.TransportError", "get_token_id")
        ELSE IF o.status = 429 THEN [got EXCEPT !.pc = "sleep"]
        ELSE IF o.status # 200 THEN TokenIdReturned(got, None)
        ELSE IF o.coins = <<>> THEN TokenIdReturned(got, None)
        ELSE TokenIdReturned(got, first_coin_id(o.coins))

\* for attempt in range(1, retries + 2)
AfterSleepOneMore(rq) ==
    IF rq.attempt < Retries + 1
    THEN [rq EXCEPT !.pc = "search", !.attempt = @ + 1]
    ELSE TokenIdReturned(rq, None)

\* get_token_id after asyncio.sleep: the next attempt, or retries exhausted
AfterSleep(rq) ==
    IF rq.attempt < Retries
    THEN [rq EXCEPT !.pc = "search", !.attempt = @ + 1]
    ELSE TokenIdReturned(rq, None)

\* a detail request that is sent again, once, after a status other than 200
ContractFromResponseRetried(rq, o) ==
    LET got == [rq EXCEPT !.answers = Append(@, o)]
    IN  IF o.exc THEN Raise(got, "httpx.TransportError", "_get_contract_from_coingecko")
        ELSE IF o.status # 200
             THEN IF rq.answers = <<>> THEN [got EXCEPT !.pc = "detail"]
                  ELSE CoingeckoReturned(got, None)
        ELSE CoingeckoReturned(got, DictGet(o.platforms, platform_key(rq.chain), None))

\* _get_contract_from_coingecko, from the response of the detail request
ContractFromResponse(rq, o) ==
    LET got == [rq EXCEPT !.answers = Append(@, o)]
    IN  IF o.exc THEN Raise(got, "httpx.TransportError", "_get_contract_from_coingecko")
        ELSE IF o.status # 200 THEN CoingeckoReturned(got, None)
        ELSE CoingeckoReturned(got, DictGet(o.platforms, platform_key(rq.chain), None))

\* the first result that has an address: next(t for t in tokens if t.get("address"))
FallbackAnyResult(rq, o) ==
    LET got == [rq EXCEPT !.answers = Append(@, o)]
        addressed == { i \in DOMAIN o.tokens : Truthy(o.tokens[i]) }
    IN  IF o.exc THEN ContractReturned(got, None)
        ELSE IF o.status = 200 /\ addressed # {}
             THEN ContractReturned(got, o.tokens[CHOOSE i \in addressed :
                                                   \A j \in addressed : i <= j])
        ELSE ContractReturned(got, None)

\* the Ethplorer fallback of get_token_contract, from the response on
FallbackFromResponse(rq, o) ==
    LET got == [rq EXCEPT !.answers = Append(@, o)]
    IN  IF o.exc THEN ContractReturned(got, None)
        ELSE IF o.status = 200 /\ o.tokens # <<>> /\ Truthy(o.tokens[1])
             THEN ContractReturned(got, o.tokens[1])
        ELSE ContractReturned(got, None)

\* get_token_contract(symbol, chain), up to its first await
EnterTokenContract(rq, symbol, chain) ==
    LET called == Log([Push(rq, "get_token_contract") EXCEPT
                          !.symbol = symbol, !.chain = chain, !.status = "running"],
                      [ev |-> "get_token_contract"])
    IN  IF IsNativeEth(symbol) THEN ContractReturned(called, weth_address)
        ELSE IF IsUnsupported(symbol) THEN ContractReturned(called, None)
        ELSE EnterTokenId(called, 0)

(***************************************************************************)
(* Initial state: the modules are imported, nothing is connected           *)
(***************************************************************************)
Init ==
    /\ client = None
    /\ db = <<>>
    /\ slots = {1}
    /\ providers = AnyProviders
    /\ req = [r \in slots |-> IdleRequest]

\* the requests the server handles concurrently
MaxRequests == 2

\* concurrent requests against deterministic providers
InitIsolated ==
    /\ client = None
    /\ db = <<>>
    /\ slots = 1..MaxRequests
    /\ providers \in DeterministicProviders
    /\ req = [r \in slots |-> IdleRequest]

\* chain kept in a module-level variable that every request reads
SetSharingChain(r, rq) ==
    req' = [s \in slots |-> IF s = r THEN rq
                            ELSE [req[s] EXCEPT !.chain = rq.chain]]

\* the loop variable of get_token_id kept in a module-level variable
SetSharingAttempt(r, rq) ==
    req' = [s \in slots |-> IF s = r THEN rq
                            ELSE [req[s] EXCEPT !.attempt = rq.attempt]]

Set(r, rq) == req' = [req EXCEPT ![r] = rq]

\* the server accepts requests between startup and shutdown of the lifespan
Serving(r) == client = "AsyncIOMotorClient" /\ req[r].pc = "idle"

(***************************************************************************)
(* mongodb.py                                                              *)
(***************************************************************************)
connect_to_mongo ==
    /\ client = None
    /\ client' = "AsyncIOMotorClient"
    /\ UNCHANGED <<db, slots, providers, req>>

\* insert_one either stores the document or fails
save_report_to_db(r) ==
    /\ req[r].pc = "save_report_to_db"
    /\ \E stored \in BOOLEAN :
         IF stored
         THEN /\ db' = Append(db, [rid |-> r, doc |-> req[r].report])
              /\ Set(r, Finish(Log(req[r], [ev |-> "insert_one"]), DictVal(req[r].report)))
         ELSE /\ db' = db
              /\ Set(r, Raise(Log(req[r], [ev |-> "insert_one"]),
                              "PyMongoError", "save_report_to_db"))
    /\ UNCHANGED <<client, slots, providers>>

(***************************************************************************)
(* Entry points                                                            *)
(***************************************************************************)
\* a direct call of get_token_id(symbol)
call_get_token_id(r) ==
    /\ Serving(r)
    /\ \E symbol \in Symbols :
         Set(r, EnterTokenId([req[r] EXCEPT !.entry = "get_token_id", !.symbol = symbol,
                                           !.status = "running"], 0))
    /\ UNCHANGED <<client, db, slots, providers>>

\* a direct call of _get_contract_from_coingecko(token_id, query, chain)
call_get_contract_from_coingecko(r) ==
    /\ Serving(r)
    /\ \E token_id \in TokenIds, query \in OrdinarySymbols, chain \in Chains :
         Set(r, ContractLookup(
                    Push([req[r] EXCEPT !.entry = "_get_contract_from_coingecko",
                                        !.symbol = query, !.chain = chain,
                                        !.status = "running"],
                         "_get_contract_from_coingecko"),
                    token_id))
    /\ UNCHANGED <<client, db, slots, providers>>

\* a direct call of get_token_contract(symbol, chain)
call_get_token_contract(r) ==
    /\ Serving(r)
    /\ \E symbol \in Symbols, chain \in Chains :
         Set(r, EnterTokenContract([req[r] EXCEPT !.entry = "get_token_contract"],
                                   symbol, chain))
    /\ UNCHANGED <<client, db, slots, providers>>

\* the chains of the concurrent calls
IsolatedChains == {"eth", "bsc"}

\* get_token_contract(symbol, chain) called while other requests run
concurrent_get_token_contract(r) ==
    /\ Serving(r)
    /\ \E symbol \in OrdinarySymbols, chain \in IsolatedChains :
         Set(r, EnterTokenContract([req[r] EXCEPT !.entry = "get_token_contract"],
                                   symbol, chain))
    /\ UNCHANGED <<client, db, slots, providers>>

\* get_crypto_price(symbol) called while other requests run
concurrent_get_crypto_price(r) ==
    /\ Serving(r)
    /\ \E symbol \in OrdinarySymbols :
         Set(r, EnterTokenContract(
                    Push([req[r] EXCEPT !.entry = "get_crypto_price"], "get_crypto_price"),
                    symbol, DefaultChain))
    /\ UNCHANGED <<client, db, slots, providers>>

\* POST /openai/crypto: get_crypto_price(symbol) with the default chain
openai_crypto_price(r) ==
    /\ Serving(r)
    /\ \E symbol \in Symbols :
         Set(r, EnterTokenContract(
                    Push([req[r] EXCEPT !.entry = "get_crypto_price"], "get_crypto_price"),
                    symbol, DefaultChain))
    /\ UNCHANGED <<client, db, slots, providers>>

\* POST /crypto/metadata: get_crypto_metadata(symbol) with the default chain
crypto_metadata(r) ==
    /\ Serving(r)
    /\ \E symbol \in Symbols :
         Set(r, EnterTokenContract(
                    Push([req[r] EXCEPT !.entry = "get_crypto_metadata"], "get_crypto_metadata"),
                    symbol, DefaultChain))
    /\ UNCHANGED <<client, db, slots, providers>>

\* generate_crypto_report(symbol), up to its first await
EnterReport(rq, symbol) ==
    EnterTokenContract(Push(Push(rq, "generate_crypto_report"), "get_crypto_price"),
                       symbol, DefaultChain)

\* POST /crypto/report
get_crypto_report(r) ==
    /\ Serving(r)
    /\ \E symbol \in Symbols :
         Set(r, EnterReport(Push([req[r] EXCEPT !.entry = "get_crypto_report"],
                                 "get_crypto_report"), symbol))
    /\ UNCHANGED <<client, db, slots, providers>>

\* POST /openai/chat, from the completion to the dispatch of a function call
ChatDispatch(rq, o) ==
    IF o.exc THEN Raise(rq, "openai.APIError", "chat_with_openai")
    ELSE IF o.call /\ o.name = "get_crypto_price"
         THEN EnterTokenContract(Push(rq, "get_crypto_price"), o.symbol, DefaultChain)
    ELSE IF o.call /\ o.name = "generate_crypto_report"
         THEN EnterReport(rq, o.symbol)
    ELSE Finish(rq, RawCompletion)

chat_with_openai(r) ==
    /\ Serving(r)
    /\ \E o \in ChatOutcomes :
         Set(r, ChatDispatch(
                    Log(Push([req[r] EXCEPT !.entry = "chat_with_openai", !.status = "running"],
                             "chat_with_openai"),
                        [ev |-> "chat.completions.create", fn |-> "chat_with_openai"]), o))
    /\ UNCHANGED <<client, db, slots, providers>>

(***************************************************************************)
(* Steps of a running request                                              *)
(***************************************************************************)
\* what the search provider can answer to the query q
SearchAnswers(q) ==
    IF providers.deterministic THEN {providers.search[q]} ELSE SearchOutcomes

\* get_token_id: the search for q, answered with o
SearchStep(rq, q, o) == TokenIdFromResponse(Log(rq, [ev |-> "GET search", q |-> q]), o)

\* one attempt of get_token_id: the search request and its response
get_token_id(r) ==
    /\ req[r].pc = "search"
    /\ LET q == SearchQuery(StageQuery(req[r].symbol, req[r].stage))
       IN  \E o \in SearchAnswers(q) : Set(r, SearchStep(req[r], q, o))
    /\ UNCHANGED <<client, db, slots, providers>>

\* await asyncio.sleep(2); continue
SleepStep(rq) == AfterSleep(Log(rq, [ev |-> "sleep", secs |-> SleepSeconds]))

get_token_id_sleep(r) ==
    /\ req[r].pc = "sleep"
    /\ Set(r, SleepStep(req[r]))
    /\ UNCHANGED <<client, db, slots, providers>>

\* the detail request of _get_contract_from_coingecko and its response
DetailAnswers(token_id) ==
    IF providers.deterministic THEN {providers.detail[token_id]} ELSE DetailOutcomes

DetailStep(rq, o) ==
    ContractFromResponse(Log(rq, [ev |-> "GET coins", id |-> rq.token_id]), o)

get_contract_from_coingecko(r) ==
    /\ req[r].pc = "detail"
    /\ \E o \in DetailAnswers(req[r].token_id) : Set(r, DetailStep(req[r], o))
    /\ UNCHANGED <<client, db, slots, providers>>

\* the Ethplorer request of get_token_contract and its response
EthplorerAnswers(symbol) ==
    IF providers.deterministic THEN {providers.ethplorer[symbol]} ELSE EthplorerOutcomes

EthplorerStep(rq, o) ==
    FallbackFromResponse(Log(rq, [ev |-> "GET ethplorer", q |-> rq.symbol]), o)

get_token_contract_fallback(r) ==
    /\ req[r].pc = "ethplorer"
    /\ \E o \in EthplorerAnswers(req[r].symbol) : Set(r, EthplorerStep(req[r], o))
    /\ UNCHANGED <<client, db, slots, providers>>

MoralisRequest(rq) ==
    [ev |-> "GET moralis", address |-> rq.contract_address, chain |-> rq.chain]

\* the Moralis request of get_crypto_price and its response
MoralisAnswers(contract_address) ==
    IF providers.deterministic THEN {providers.moralis[contract_address]}
    ELSE MoralisOutcomes

PriceStep(rq, o) == PriceFromResponse(Log(rq, MoralisRequest(rq)), o)

get_crypto_price(r) ==
    /\ req[r].pc = "moralis"
    /\ Top(req[r]) = "get_crypto_price"
    /\ \E o \in MoralisAnswers(req[r].contract_address) : Set(r, PriceStep(req[r], o))
    /\ UNCHANGED <<client, db, slots, providers>>

\* the Moralis request of get_crypto_metadata and its response
get_crypto_metadata(r) ==
    /\ req[r].pc = "moralis"
    /\ Top(req[r]) = "get_crypto_metadata"
    /\ \E o \in MoralisAnswers(req[r].contract_address) :
         Set(r, MetadataFromResponse(Log(req[r], MoralisRequest(req[r])), o))
    /\ UNCHANGED <<client, db, slots, providers>>

\* generate_crypto_report: the completion, the summary and the report
ReportFromCompletion(rq, o) ==
    IF o.exc THEN Raise(rq, "openai.APIError", "generate_crypto_report")
    ELSE ReportReturned(rq, BuildReport(rq.symbol, rq.data, o.content))

generate_crypto_report(r) ==
    /\ req[r].pc = "completion"
    /\ \E o \in CompletionOutcomes :
         Set(r, ReportFromCompletion(Log(req[r], [ev |-> "chat.completions.create",
                                                 fn |-> "generate_crypto_report"]), o))
    /\ UNCHANGED <<client, db, slots, providers>>

Next ==
    \/ connect_to_mongo
    \/ \E r \in slots : call_get_token_id(r)
    \/ \E r \in slots : call_get_contract_from_coingecko(r)
    \/ \E r \in slots : call_get_token_contract(r)
    \/ \E r \in slots : openai_crypto_price(r)
    \/ \E r \in slots : crypto_metadata(r)
    \/ \E r \in slots : get_crypto_report(r)
    \/ \E r \in slots : chat_with_openai(r)
    \/ \E r \in slots : get_token_id(r)
    \/ \E r \in slots : get_token_id_sleep(r)
    \/ \E r \in slots : get_contract_from_coingecko(r)
    \/ \E r \in slots : get_token_contract_fallback(r)
    \/ \E r \in slots : get_crypto_price(r)
    \/ \E r \in slots : get_crypto_metadata(r)
    \/ \E r \in slots : generate_crypto_report(r)
    \/ \E r \in slots : save_report_to_db(r)

Spec == Init /\ [][Next]_vars

\* get_token_contract and get_crypto_price requests interleaved at their awaits
NextIsolated ==
    \/ connect_to_mongo
    \/ \E r \in slots : concurrent_get_token_contract(r)
    \/ \E r \in slots : concurrent_get_crypto_price(r)
    \/ \E r \in slots : get_token_id(r)
    \/ \E r \in slots : get_token_id_sleep(r)
    \/ \E r \in slots : get_contract_from_coingecko(r)
    \/ \E r \in slots : get_token_contract_fallback(r)
    \/ \E r \in slots : get_crypto_price(r)

SpecIsolated == InitIsolated /\ [][NextIsolated]_vars

(***************************************************************************)
(* Properties                                                              *)
(***************************************************************************)
Count(tr, e) == Cardinality({ i \in DOMAIN tr : tr[i].ev = e })

\* upstream requests of the contract resolution
ResolutionRequests(tr) ==
    Count(tr, "GET search") + Count(tr, "GET coins") + Count(tr, "GET ethplorer")

Returned(rq) == rq.pc = "done" /\ rq.status = "returned"

ReturnedDict(rq) == Returned(rq) /\ rq.ret.kind = "dict"

InResolution(rq) == \E i \in DOMAIN rq.stack : rq.stack[i] = "get_token_contract"

\* the special-cased names, lower-cased
UnsupportedNamesLower ==
    { <<"s","o","l">>, <<"s","o","l","a","n","a">>, <<"x","l","m">>,
      <<"s","t","e","l","l","a","r">> }

NativeNamesLower == { <<"e","t","h">>, <<"e","t","h","e","r","e","u","m">> }

\* get_token_contract returned an address found by stage n
ResolvedAtStage(rq, n) ==
    /\ rq.stage = n
    /\ rq.contract_address # None
    /\ rq.contract_address # ""

\* C1: whenever get_crypto_price hands an ErrorResult to generate_crypto_report,
\* the report request returns that ErrorResult unchanged, without a completion
\* call and without an exception.
C1_ErrorResultPropagated ==
    \A r \in slots :
        "error" \in DOMAIN req[r].data =>
            /\ req[r].status = "returned"
            /\ req[r].ret = DictVal(req[r].data)
            /\ \A i \in DOMAIN req[r].trace :
                 req[r].trace[i].ev = "chat.completions.create"
                     => req[r].trace[i].fn # "generate_crypto_report"

\* C2: no exception leaves get_token_contract, whichever provider raises at
\* whichever stage.
C2_NoFailureEscapesResolution ==
    \A r \in slots :
        (req[r].status = "raised" /\ InResolution(req[r])) =>
            req[r].exc.fn \notin {"get_token_contract", "get_token_id",
                                  "_get_contract_from_coingecko"}

\* C3: an address found by the second wrapped variant ("w{symbol}") is
\* returned after exactly 2 token-id lookups and 2 contract lookups that
\* failed (the primary query and "wrapped {symbol}"); the succeeding third
\* round is one more lookup of each, for "w{symbol}"; Ethplorer is never
\* queried.
C3_FallbackOrdering ==
    \A r \in slots :
        ResolvedAtStage(req[r], 2) =>
            LET tr == req[r].trace
                rounds == { i \in DOMAIN tr : tr[i].ev = "get_token_id" }
                lookups == { i \in DOMAIN tr : tr[i].ev = "_get_contract_from_coingecko" }
                searches == { i \in DOMAIN tr : tr[i].ev = "GET search" }
            IN  /\ Count(tr, "GET ethplorer") = 0
                /\ \E succeeding \in rounds :
                     /\ Cardinality({ i \in rounds : i < succeeding }) = 2
                     /\ Cardinality({ i \in lookups : i < succeeding }) = 2
                     /\ Cardinality({ i \in rounds : i > succeeding }) = 0
                     /\ Cardinality({ i \in lookups : i > succeeding }) = 1
                     /\ tr[succeeding].q = <<"w">> \o Lower(req[r].symbol)
                     /\ \A i \in searches :
                          i > succeeding => tr[i].q = <<"w">> \o Lower(req[r].symbol)
                     /\ \E i \in searches : i > succeeding
                     /\ Count(SubSeq(tr, succeeding, Len(tr)), "GET coins") = 1
                /\ (Returned(req[r]) /\ req[r].entry = "get_token_contract")
                       => req[r].ret = StrVal(req[r].contract_address)

C3_Witness ==
    \E r \in slots :
        /\ ResolvedAtStage(req[r], 2)
        /\ Returned(req[r])
        /\ req[r].entry = "get_token_contract"

\* C4: when get_token_contract yields absent, get_crypto_price and
\* get_crypto_metadata return the "contract address not found" ErrorResult, and
\* no request ever reaches Moralis without a resolved address.
C4_AbsentContractNoPricing ==
    \A r \in slots :
        LET rq == req[r]
            absent == rq.contract_address = None \/ rq.contract_address = ""
        IN  /\ Count(rq.trace, "GET moralis") > 0 => ~absent
            /\ rq.pc = "moralis" => ~absent
            /\ (Returned(rq) /\ absent /\ rq.entry = "get_crypto_price")
                   => rq.ret = DictVal(PriceContractError(rq.symbol, rq.chain))
            /\ (Returned(rq) /\ absent /\ rq.entry = "get_crypto_metadata")
                   => rq.ret = DictVal(MetadataContractError(rq.symbol, rq.chain))
            /\ (absent /\ rq.data # EmptyDict)
                   => rq.data = PriceContractError(rq.symbol, rq.chain)

C4_Witness ==
    \E r \in slots :
        /\ Returned(req[r])
        /\ req[r].entry = "get_crypto_price"
        /\ req[r].symbol \in OrdinarySymbols
        /\ Count(req[r].trace, "GET ethplorer") = 1
        /\ req[r].contract_address = None
        /\ "error" \in DOMAIN req[r].ret.v

\* C5: a PriceRecord or MetadataRecord is returned only from a 200 response
\* with a JSON object; a resolved address is followed by exactly one Moralis
\* request, never a second; a non-200 status returns the ErrorResult with the
\* status code and the raw body.
C5_RecordOnlyFromSuccess ==
    \A r \in slots :
        LET rq == req[r]
            direct == rq.entry \in {"get_crypto_price", "get_crypto_metadata"}
            failed == ~rq.response.exc /\ rq.response.status \in {429, 500}
        IN  /\ Count(rq.trace, "GET moralis") <= 1
            /\ (direct /\ rq.pc = "done" /\ Truthy(rq.contract_address))
                   => Count(rq.trace, "GET moralis") = 1
            /\ (direct /\ ReturnedDict(rq) /\ "error" \notin DOMAIN rq.ret.v)
                   => /\ rq.response.status = 200
                      /\ rq.response.body.kind = "object"
                      /\ ~rq.response.exc
            /\ (direct /\ rq.pc = "done" /\ failed)
                   => /\ Returned(rq)
                      /\ rq.ret = DictVal(MoralisStatusError(rq.response.status,
                                                              rq.response.body))
            /\ "current_price" \in DOMAIN rq.data
                   => rq.response.status = 200 /\ rq.response.body.kind = "object"
            /\ failed /\ rq.data # EmptyDict
                   => rq.data = MoralisStatusError(rq.response.status, rq.response.body)

C5_Witness ==
    \E r \in slots :
        /\ Returned(req[r])
        /\ req[r].entry = "get_crypto_price"
        /\ req[r].response.status = 429
        /\ Count(req[r].trace, "GET moralis") = 1
        /\ "response" \in DOMAIN req[r].ret.v

\* the payload key each PriceRecord field is read from
PriceFields ==
    [ current_price |-> "usdPrice", price_change_24h |-> "priceChange",
      price_change_percent |-> "priceChangePercent", high_24h |-> "highPrice",
      low_24h |-> "lowPrice", volume |-> "volume" ]

\* C6: in every returned PriceRecord and MetadataRecord, a field whose key the
\* Moralis payload lacks holds the marker "N/A".
C6_AbsentFieldsMarked ==
    \A r \in slots :
        LET rq == req[r]
            payload == rq.response.body.data
        IN  (ReturnedDict(rq) /\ "error" \notin DOMAIN rq.ret.v) =>
                /\ rq.entry = "get_crypto_price" =>
                     \A f \in DOMAIN PriceFields :
                         PriceFields[f] \notin DOMAIN payload => rq.ret.v[f] = "N/A"
                /\ rq.entry = "get_crypto_metadata" =>
                     \A k \in MetadataKeys :
                         k \notin DOMAIN payload => rq.ret.v[k] = "N/A"

\* C7: a request that returns a Report has inserted it exactly once.
C7_ReportInsertedOnce ==
    \A r \in slots :
        (ReturnedDict(req[r]) /\ "report_summary" \in DOMAIN req[r].ret.v) =>
            Cardinality({ i \in DOMAIN db : db[i].rid = r }) = 1

\* C8: for a symbol that is SOL, SOLANA, XLM or STELLAR in any casing,
\* get_token_contract yields absent and the resolution issues no request.
C8_UnsupportedShortCircuit ==
    \A r \in slots :
        LET rq == req[r]
        IN  (rq.entry # "get_token_id" /\ Lower(rq.symbol) \in UnsupportedNamesLower) =>
                /\ ResolutionRequests(rq.trace) = 0
                /\ Count(rq.trace, "sleep") = 0
                /\ Count(rq.trace, "GET moralis") = 0
                /\ rq.contract_address = None
                /\ rq.pc \notin {"search", "sleep", "detail", "ethplorer", "moralis"}
                /\ rq.entry = "get_token_contract"
                       => Returned(rq) /\ rq.ret = StrVal(None)

C8_Witness ==
    \E r \in slots :
        /\ req[r].entry = "get_token_contract"
        /\ req[r].symbol = <<"S","t","e","l","l","a","r">>
        /\ req[r].chain = "polygon"
        /\ Returned(req[r])

\* C9: for ETH or ETHEREUM in any casing and any supported chain,
\* get_token_contract returns the WETH address and the resolution issues no
\* request.
C9_NativeShortCircuit ==
    \A r \in slots :
        LET rq == req[r]
        IN  (rq.entry # "get_token_id" /\ rq.chain \in SupportedChains /\
             Lower(rq.symbol) \in NativeNamesLower) =>
                /\ ResolutionRequests(rq.trace) = 0
                /\ Count(rq.trace, "sleep") = 0
                /\ rq.contract_address = "0xC02aaa39b223FE8D0A0E5C4F27eAD9083C756Cc2"
                /\ rq.pc \notin {"search", "sleep", "detail", "ethplorer"}
                /\ rq.entry = "get_token_contract"
                       => /\ Returned(rq)
                          /\ rq.ret = StrVal("0xC02aaa39b223FE8D0A0E5C4F27eAD9083C756Cc2")

C9_Witness ==
    \E r \in slots :
        /\ req[r].entry = "get_token_contract"
        /\ req[r].symbol = <<"E","t","h","e","r","e","u","m">>
        /\ req[r].chain = "fantom"
        /\ Returned(req[r])

\* the seconds a trace spent in asyncio.sleep
RECURSIVE Slept(_)
Slept(tr) ==
    IF tr = <<>> THEN 0
    ELSE (IF Head(tr).ev = "sleep" THEN Head(tr).secs ELSE 0) + Slept(Tail(tr))

\* the search provider answered 429, 429, then 200 with results
RateLimitedTwice(rq) ==
    /\ Len(rq.answers) = 3
    /\ \A i \in 1..3 : ~rq.answers[i].exc
    /\ rq.answers[1].status = 429
    /\ rq.answers[2].status = 429
    /\ rq.answers[3].status = 200
    /\ rq.answers[3].coins # <<>>

\* C10: answered 429, 429, then 200 with results, get_token_id returns the
\* first result's id after exactly 3 search requests and 2 pauses of 2
\* seconds (4 seconds).
C10_RateLimitRetry ==
    \A r \in slots :
        LET rq == req[r]
        IN  (rq.entry = "get_token_id" /\ RateLimitedTwice(rq)) =>
                /\ Returned(rq)
                /\ rq.ret = StrVal(rq.answers[3].coins[1])
                /\ rq.attempt = 3
                /\ [i \in DOMAIN rq.trace |-> rq.trace[i].ev] =
                       <<"get_token_id", "GET search", "sleep", "GET search",
                         "sleep", "GET search">>
                /\ \A i \in DOMAIN rq.trace :
                       rq.trace[i].ev = "sleep" => rq.trace[i].secs = 2
                /\ Slept(rq.trace) = 4

C10_Witness ==
    \E r \in slots :
        /\ req[r].entry = "get_token_id"
        /\ RateLimitedTwice(req[r])
        /\ Len(req[r].answers[3].coins) = 2
        /\ req[r].ret = StrVal("bitcoin")

\* the search provider answered 429 to every attempt so far
AlwaysRateLimited(rq) ==
    /\ rq.answers # <<>>
    /\ \A i \in DOMAIN rq.answers : ~rq.answers[i].exc /\ rq.answers[i].status = 429

\* C11: answered 429 on every attempt, get_token_id issues exactly 3 search
\* requests, never a 4th, and returns absent (None) without raising.
C11_RetryExhaustion ==
    \A r \in slots :
        LET rq == req[r]
        IN  (rq.entry = "get_token_id" /\ AlwaysRateLimited(rq)) =>
                /\ Count(rq.trace, "GET search") = Len(rq.answers)
                /\ Count(rq.trace, "GET search") <= 3
                /\ rq.status # "raised"
                /\ rq.pc \in {"sleep", "search", "done"}
                /\ rq.pc = "search" => Len(rq.answers) < 3
                /\ rq.pc = "done" =>
                       /\ Count(rq.trace, "GET search") = 3
                       /\ Returned(rq)
                       /\ rq.ret = StrVal(None)

C11_Witness ==
    \E r \in slots :
        /\ req[r].entry = "get_token_id"
        /\ AlwaysRateLimited(req[r])
        /\ Len(req[r].answers) = 3
        /\ Returned(req[r])
        /\ req[r].ret = StrVal(None)

\* C12: in every call of get_token_id each pause is followed by another
\* search request: a call that made k attempts has paused exactly k-1 times
\* and its last act is never a pause.
C12_PauseOnlyBetweenAttempts ==
    \A r \in slots :
        LET rq == req[r]
            tr == rq.trace
        IN  (rq.entry = "get_token_id" /\ rq.pc = "done") =>
                /\ Count(tr, "sleep") = Count(tr, "GET search") - 1
                /\ tr[Len(tr)].ev # "sleep"
                /\ \A i \in DOMAIN tr :
                       tr[i].ev = "sleep" => i < Len(tr) /\ tr[i + 1].ev = "GET search"

\* the latest answer of the search provider
LastAnswer(rq) == rq.answers[Len(rq.answers)]

\* an answer that is neither a rate limit nor a success
IsFailureStatus(o) == ~o.exc /\ o.status # 429 /\ o.status # 200

\* a success with an empty result list
IsEmptySuccess(o) == ~o.exc /\ o.status = 200 /\ o.coins = <<>>

\* C14: as soon as an attempt of get_token_id (the first, or one after
\* earlier 429 answers) is answered with a status that is neither 429 nor a
\* success, or with a success whose result list is empty, the call returns
\* absent (None) with no further search request and no pause.
C14_RetryOnlyOnRateLimit ==
    \A r \in slots :
        LET rq == req[r]
            tr == rq.trace
        IN  (rq.entry = "get_token_id" /\ rq.answers # <<>> /\
             (IsFailureStatus(LastAnswer(rq)) \/ IsEmptySuccess(LastAnswer(rq)))) =>
                /\ Returned(rq)
                /\ rq.ret = StrVal(None)
                /\ tr[Len(tr)].ev = "GET search"
                /\ Count(tr, "GET search") = Len(rq.answers)
                /\ Count(tr, "sleep") = Len(rq.answers) - 1
                /\ \A i \in 1..(Len(rq.answers) - 1) :
                       ~rq.answers[i].exc /\ rq.answers[i].status = 429

C14_Witness ==
    \E r \in slots :
        /\ req[r].entry = "get_token_id"
        /\ Len(req[r].answers) = 2
        /\ req[r].answers[1].status = 429
        /\ req[r].answers[2].status = 500
        /\ Returned(req[r])
        /\ Count(req[r].trace, "sleep") = 1

\* the platform key of each chain
ExpectedPlatformKey(chain) ==
    CASE chain = "eth" -> "ethereum"
      [] chain = "bsc" -> "binance-smart-chain"
      [] chain = "polygon" -> "polygon"
      [] chain = "avalanche" -> "avalanche"
      [] chain = "fantom" -> "fantom"
      [] OTHER -> "ethereum"

\* C17: _get_contract_from_coingecko with an absent token id returns absent
\* and issues no request; otherwise it issues exactly one detail request,
\* returns absent on a status other than 200, and on 200 returns the address
\* under the platform key of the chain ("ethereum" for an unrecognized
\* chain), which is absent (None or empty) when the key is missing or empty.
C17_ContractFromCoingecko ==
    \A r \in slots :
        LET rq == req[r]
            key == ExpectedPlatformKey(rq.chain)
        IN  rq.entry = "_get_contract_from_coingecko" =>
                /\ Count(rq.trace, "GET coins") <= 1
                /\ Count(rq.trace, "GET search") + Count(rq.trace, "GET ethplorer") = 0
                /\ ~Truthy(rq.token_id) =>
                       /\ Returned(rq)
                       /\ rq.ret = StrVal(None)
                       /\ Count(rq.trace, "GET coins") = 0
                /\ (Truthy(rq.token_id) /\ rq.pc = "done") =>
                       /\ Count(rq.trace, "GET coins") = 1
                       /\ Len(rq.answers) = 1
                       /\ \A i \in DOMAIN rq.trace :
                              rq.trace[i].ev = "GET coins" => rq.trace[i].id = rq.token_id
                       /\ LET o == rq.answers[1]
                          IN  /\ (~o.exc /\ o.status # 200) =>
                                     Returned(rq) /\ rq.ret = StrVal(None)
                              /\ (~o.exc /\ o.status = 200 /\ key \in DOMAIN o.platforms) =>
                                     Returned(rq) /\ rq.ret = StrVal(o.platforms[key])
                              /\ (~o.exc /\ o.status = 200 /\ key \notin DOMAIN o.platforms) =>
                                     Returned(rq) /\ rq.ret = StrVal(None)
                              /\ (~o.exc /\ o.status = 200 /\
                                  (key \notin DOMAIN o.platforms \/ o.platforms[key] = "")) =>
                                     ~Truthy(rq.ret.v)

C17_Witness ==
    \E r \in slots :
        /\ req[r].entry = "_get_contract_from_coingecko"
        /\ req[r].chain = "avalanche"
        /\ Returned(req[r])
        /\ Len(req[r].answers) = 1
        /\ req[r].answers[1].status = 200
        /\ req[r].ret = StrVal("0xB4")

\* get_token_contract has received the answer of the last-resort provider
FallbackAnswered(rq) ==
    /\ InResolution(rq) \/ rq.entry = "get_token_contract"
    /\ Count(rq.trace, "GET ethplorer") > 0

\* C16: after the primary attempt and the three wrapped variants yielded
\* absent, get_token_contract queries Ethplorer exactly once with the raw
\* symbol, whatever the chain; a 200 answer with a non-empty result list
\* returns the first result's address; a non-200 answer, an empty list, a
\* first result without address and an exception return absent (None).
C16_LastResort ==
    \A r \in slots :
        LET rq == req[r]
            tr == rq.trace
        IN  /\ rq.pc = "ethplorer" =>
                   /\ Count(tr, "GET ethplorer") = 0
                   /\ Count(tr, "get_token_id") = 4
                   /\ rq.contract_address = None
            /\ (rq.entry = "get_token_contract" /\ rq.pc = "done" /\
                rq.status = "returned" /\ rq.symbol \in OrdinarySymbols /\
                Count(tr, "get_token_id") = 4 /\
                Count(tr, "_get_contract_from_coingecko") = 4 /\
                ~Truthy(rq.ret.v)) =>
                   Count(tr, "GET ethplorer") = 1
            /\ FallbackAnswered(rq) =>
                   /\ Count(tr, "GET ethplorer") = 1
                   /\ \A i \in DOMAIN tr :
                          tr[i].ev = "GET ethplorer" =>
                              /\ tr[i].q = rq.symbol
                              /\ \A j \in DOMAIN tr :
                                     j > i => tr[j].ev \notin {"GET search", "GET coins",
                                                               "get_token_id", "sleep"}
                   /\ Len(rq.answers) = 1
                   /\ LET o == rq.answers[1]
                          first == ~o.exc /\ o.status = 200 /\ o.tokens # <<>>
                      IN  /\ (first /\ Truthy(o.tokens[1])) =>
                                 rq.contract_address = o.tokens[1]
                          /\ ~(first /\ Truthy(o.tokens[1])) =>
                                 rq.contract_address = None
                   /\ rq.entry = "get_token_contract" =>
                          Returned(rq) /\ rq.ret = StrVal(rq.contract_address)

C16_Witness ==
    \E r \in slots :
        /\ req[r].entry = "get_token_contract"
        /\ req[r].chain = "polygon"
        /\ FallbackAnswered(req[r])
        /\ req[r].answers = << [exc |-> FALSE, status |-> 200, tokens |-> <<None, "0xE1">>] >>
        /\ req[r].ret = StrVal(None)

\* from position i on, no round of get_token_id (the events from one entry
\* of get_token_id to the next) has more than 3 search requests or more than
\* 1 detail request; searches and details count those of the round so far
RECURSIVE RoundsBounded(_, _, _, _)
RoundsBounded(tr, i, searches, details) ==
    IF i > Len(tr) THEN TRUE
    ELSE IF tr[i].ev = "get_token_id" THEN RoundsBounded(tr, i + 1, 0, 0)
    ELSE IF tr[i].ev = "GET search"
         THEN searches < 3 /\ RoundsBounded(tr, i + 1, searches + 1, details)
    ELSE IF tr[i].ev = "GET coins"
         THEN details < 1 /\ RoundsBounded(tr, i + 1, searches, details + 1)
    ELSE RoundsBounded(tr, i + 1, searches, details)

\* the bounds of one resolution
ResolutionBounded(rq) ==
    LET tr == rq.trace
    IN  /\ Count(tr, "get_token_id") <= 4
        /\ RoundsBounded(tr, 1, 0, 0)
        /\ Count(tr, "GET search") <= 12
        /\ Count(tr, "GET coins") <= 4
        /\ Count(tr, "GET ethplorer") <= 1
        /\ ResolutionRequests(tr) <= 17

\* a step of a request extends its trace
TraceGrows(r) == req'[r] # req[r] => Len(req'[r].trace) > Len(req[r].trace)

\* C18: get_token_contract makes at most 4 get_token_id invocations of at
\* most 3 search requests each, at most 4 detail requests (one per round,
\* never retried) and at most 1 Ethplorer request, 17 upstream requests at
\* most; every step of a request extends its bounded trace, so it terminates.
C18_BoundedResolution ==
    /\ [](\A r \in slots : ResolutionBounded(req[r]))
    /\ [][\A r \in slots : TraceGrows(r)]_vars

C18_Witness ==
    \E r \in slots :
        /\ req[r].entry = "get_token_contract"
        /\ Returned(req[r])
        /\ Count(req[r].trace, "GET search") = 12
        /\ Count(req[r].trace, "GET coins") = 4
        /\ Count(req[r].trace, "GET ethplorer") = 1

\* the queries of the stages for the symbol Btc: the symbol, "wrapped
\* {symbol}", "w{symbol}" and "wrapped-{symbol}", the last two lower-cased
BtcStageQueries ==
    << <<"B","t","c">>,
       <<"w","r","a","p","p","e","d"," ","B","t","c">>,
       <<"w","b","t","c">>,
       <<"w","r","a","p","p","e","d","-","b","t","c">> >>

\* the search URL's query of each stage for Btc
BtcSearchQueries ==
    << <<"b","t","c">>,
       <<"w","r","a","p","p","e","d"," ","b","t","c">>,
       <<"w","b","t","c">>,
       <<"w","r","a","p","p","e","d","-","b","t","c">> >>

\* from position i on, the trace runs the stages in order; stage is the
\* running stage (0 before the primary attempt, 5 once Ethplorer was asked)
\* and looked whether its contract lookup has been called
RECURSIVE StagesInOrder(_, _, _, _)
StagesInOrder(tr, i, stage, looked) ==
    IF i > Len(tr) THEN TRUE
    ELSE IF tr[i].ev = "get_token_id"
         THEN /\ stage < 4
              /\ stage > 0 => looked
              /\ tr[i].q = BtcStageQueries[stage + 1]
              /\ StagesInOrder(tr, i + 1, stage + 1, FALSE)
    ELSE IF tr[i].ev = "GET search"
         THEN /\ stage \in 1..4
              /\ ~looked
              /\ tr[i].q = BtcSearchQueries[stage]
              /\ StagesInOrder(tr, i + 1, stage, looked)
    ELSE IF tr[i].ev = "sleep"
         THEN stage \in 1..4 /\ ~looked /\ StagesInOrder(tr, i + 1, stage, looked)
    ELSE IF tr[i].ev = "_get_contract_from_coingecko"
         THEN /\ stage \in 1..4
              /\ ~looked
              /\ tr[i].q = BtcStageQueries[stage]
              /\ StagesInOrder(tr, i + 1, stage, TRUE)
    ELSE IF tr[i].ev = "GET coins"
         THEN stage \in 1..4 /\ looked /\ StagesInOrder(tr, i + 1, stage, looked)
    ELSE IF tr[i].ev = "GET ethplorer"
         THEN stage = 4 /\ looked /\ StagesInOrder(tr, i + 1, 5, looked)
    ELSE StagesInOrder(tr, i + 1, stage, looked)

\* all upstream requests of a trace
UpstreamRequests(tr) == ResolutionRequests(tr) + Count(tr, "GET moralis")

\* the events a step of request r appends to its trace
Appended(r) == SubSeq(req'[r].trace, Len(req[r].trace) + 1, Len(req'[r].trace))

\* a step of request r issues at most one upstream request, and no request
\* of the resolution once an address has been produced
OneRequestAtATime(r) ==
    req'[r] # req[r] =>
        /\ UpstreamRequests(Appended(r)) <= 1
        /\ Truthy(req[r].contract_address) => ResolutionRequests(Appended(r)) = 0

\* C15: the stages of get_token_contract run in the order primary, "wrapped
\* {symbol}", "w{symbol}", "wrapped-{symbol}", Ethplorer; a stage issues a
\* request only after the contract lookup of the stage before it was called
\* and no address has been produced; no request of the resolution follows a
\* produced address; a step of a resolution issues at most one request.
C15_StageOrder ==
    /\ [](\A r \in slots :
             /\ (req[r].symbol = BtcStageQueries[1] /\
                 req[r].entry \notin {"", "get_token_id", "_get_contract_from_coingecko"})
                    => StagesInOrder(req[r].trace, 1, 0, FALSE)
             /\ req[r].pc \in {"search", "sleep", "detail", "ethplorer"}
                    => req[r].contract_address = None)
    /\ [][\A r \in slots : OneRequestAtATime(r)]_vars

C15_Witness ==
    \E r \in slots :
        /\ req[r].entry = "get_token_contract"
        /\ req[r].symbol = BtcStageQueries[1]
        /\ Returned(req[r])
        /\ Count(req[r].trace, "get_token_id") = 4
        /\ Count(req[r].trace, "GET ethplorer") = 1
        /\ req[r].ret = StrVal("0xE1")

\* Moralis answered 200 with a JSON object that has no tokenAddress, or an
\* empty one
NoTokenAddress(rq) ==
    /\ ~rq.response.exc
    /\ rq.response.status = 200
    /\ rq.response.body.kind = "object"
    /\ \/ "tokenAddress" \notin DOMAIN rq.response.body.data
       \/ rq.response.body.data["tokenAddress"] = ""

\* C20: every MetadataRecord that get_crypto_metadata returns has a
\* non-empty tokenAddress; a 200 answer whose payload has no tokenAddress, or
\* an empty one, returns the ErrorResult "Contract address not found",
\* although the contract address had been resolved.
C20_MetadataHasTokenAddress ==
    \A r \in slots :
        LET rq == req[r]
        IN  (rq.entry = "get_crypto_metadata" /\ rq.pc = "done") =>
                /\ (ReturnedDict(rq) /\ "error" \notin DOMAIN rq.ret.v) =>
                       /\ "tokenAddress" \in DOMAIN rq.ret.v
                       /\ rq.ret.v["tokenAddress"] # None
                       /\ rq.ret.v["tokenAddress"] # ""
                       /\ rq.ret.v["tokenAddress"] = rq.response.body.data["tokenAddress"]
                /\ NoTokenAddress(rq) =>
                       /\ Returned(rq)
                       /\ rq.ret = DictVal([error |-> [msg |-> "Contract address not found"]])
                       /\ Truthy(rq.contract_address)
                       /\ Count(rq.trace, "GET moralis") = 1

C20_Witness ==
    \E r \in slots :
        /\ req[r].entry = "get_crypto_metadata"
        /\ Returned(req[r])
        /\ NoTokenAddress(req[r])
        /\ req[r].response.body.data = [FullPayload EXCEPT !["tokenAddress"] = ""]
        /\ req[r].contract_address = "0xA1"
        /\ "error" \in DOMAIN req[r].ret.v

\* the one answer of a deterministic provider
TheAnswer(answers) == CHOOSE o \in answers : TRUE

\* the step a running request takes against the providers
StepAlone(rq) ==
    IF rq.pc = "search"
    THEN LET q == SearchQuery(StageQuery(rq.symbol, rq.stage))
         IN  SearchStep(rq, q, TheAnswer(SearchAnswers(q)))
    ELSE IF rq.pc = "sleep" THEN SleepStep(rq)
    ELSE IF rq.pc = "detail" THEN DetailStep(rq, TheAnswer(DetailAnswers(rq.token_id)))
    ELSE IF rq.pc = "ethplorer" THEN EthplorerStep(rq, TheAnswer(EthplorerAnswers(rq.symbol)))
    ELSE PriceStep(rq, TheAnswer(MoralisAnswers(rq.contract_address)))

\* the request as it ends when it runs with no other request beside it
RECURSIVE RunAlone(_)
RunAlone(rq) == IF rq.pc = "done" THEN rq ELSE RunAlone(StepAlone(rq))

\* the request as it was when its operation was called
Called(rq) ==
    IF rq.entry = "get_crypto_price"
    THEN EnterTokenContract(
             Push([IdleRequest EXCEPT !.entry = "get_crypto_price"], "get_crypto_price"),
             rq.symbol, rq.chain)
    ELSE EnterTokenContract([IdleRequest EXCEPT !.entry = "get_token_contract"],
                            rq.symbol, rq.chain)

\* every request has ended or has not begun
Quiet == \A r \in slots : req[r].pc \in {"idle", "done"}

\* the upstream requests of a trace, in order
RequestsOf(tr) ==
    SelectSeq(tr, LAMBDA e : e.ev \in {"GET search", "GET coins", "GET ethplorer",
                                       "GET moralis"})

\* C13: against deterministic providers, calls of get_token_contract with
\* the same symbol and chain return the same result and issue the same
\* sequence of upstream requests, however many are made and however they
\* overlap.
C13_Idempotent ==
    \A r1, r2 \in slots :
        (/\ req[r1].pc = "done" /\ req[r2].pc = "done"
         /\ req[r1].entry = "get_token_contract" /\ req[r2].entry = "get_token_contract"
         /\ req[r1].symbol = req[r2].symbol
         /\ req[r1].chain = req[r2].chain) =>
            /\ req[r1].status = req[r2].status
            /\ req[r1].ret = req[r2].ret
            /\ req[r1].trace = req[r2].trace

C13_Witness ==
    /\ \A r \in slots :
          /\ req[r].pc = "done"
          /\ req[r].entry = "get_token_contract"
          /\ req[r].chain = "bsc"
          /\ Count(req[r].trace, "GET search") = 6
          /\ Count(req[r].trace, "sleep") = 3
          /\ Count(req[r].trace, "GET coins") = 3
          /\ req[r].ret = StrVal("0xE1")
    /\ Cardinality(slots) > 1

\* a step changes the record of one request at most, as that request
\* running alone would; the client handle is written once, by
\* connect_to_mongo, before any request begins
IsolatedStep ==
    /\ \A r \in slots :
          (req'[r] # req[r] /\ req[r].pc # "idle") =>
              /\ req'[r] = StepAlone(req[r])
              /\ \A s \in slots \ {r} : req'[s] = req[s]
    /\ \A r \in slots :
          (req'[r] # req[r] /\ req[r].pc = "idle") =>
              /\ req'[r] = Called(req'[r])
              /\ \A s \in slots \ {r} : req'[s] = req[s]
    /\ client' # client =>
          /\ client = None
          /\ \A r \in slots : req[r].pc = "idle"
          /\ req' = req
    /\ providers' = providers /\ slots' = slots /\ db' = db

\* C19: concurrent get_token_contract and get_crypto_price requests,
\* interleaved at their awaits in every way, each end with the result and
\* the sequence of upstream requests of the same request running alone
\* against the same deterministic providers; a step touches one request's
\* record only, and the only state all requests share, the client handle, is
\* written by connect_to_mongo alone, at startup.
C19_RequestIsolation ==
    /\ [](Quiet => \A r \in slots :
                      req[r].pc = "done" =>
                          LET alone == RunAlone(Called(req[r]))
                          IN  /\ req[r].status = alone.status
                              /\ req[r].ret = alone.ret
                              /\ RequestsOf(req[r].trace) = RequestsOf(alone.trace)
                              /\ req[r] = alone)
    /\ [][IsolatedStep]_vars

C19_Witness ==
    \E r1, r2 \in slots :
        /\ req[r1].pc = "done" /\ req[r2].pc = "done"
        /\ req[r1].entry = "get_token_contract"
        /\ req[r2].entry = "get_crypto_price"
        /\ Count(req[r1].trace, "sleep") = 3
        /\ Count(req[r2].trace, "sleep") = 3
        /\ Count(req[r2].trace, "GET search") = 4
        /\ Count(req[r2].trace, "GET moralis") = 1
        /\ req[r1].chain = "bsc"
        /\ req[r1].ret = StrVal("0xE1")
        /\ req[r2].contract_address = "0xA1"
        /\ "current_price" \in DOMAIN req[r2].ret.v

\* the keys of a fully assembled Report
ReportKeys ==
    { "symbol", "current_price", "price_change_percent", "high_24h", "low_24h",
      "volume", "source", "report_summary" }

\* request r has inserted nothing and is not about to
NoInsert(r) ==
    /\ \A i \in DOMAIN db : db[i].rid # r
    /\ Count(req[r].trace, "insert_one") = 0
    /\ req[r].pc # "save_report_to_db"

\* C21: every document of the reports collection is a fully assembled
\* Report, with its report_summary, built from a PriceRecord; a request of
\* POST /openai/chat whose price retrieval gave an ErrorResult, or whose
\* completion elected get_crypto_price or no function call, inserts nothing.
C21_OnlyReportsInserted ==
    /\ \A i \in DOMAIN db :
          LET rq == req[db[i].rid]
          IN  /\ DOMAIN db[i].doc = ReportKeys
              /\ db[i].doc["report_summary"] = "analysis"
              /\ "error" \notin DOMAIN rq.data
              /\ db[i].doc = BuildReport(rq.symbol, rq.data, "analysis")
              /\ rq.entry = "chat_with_openai"
    /\ \A r \in slots :
          LET rq == req[r]
          IN  /\ (rq.pc = "save_report_to_db" \/ Count(rq.trace, "insert_one") > 0) =>
                     /\ DOMAIN rq.report = ReportKeys
                     /\ "error" \notin DOMAIN rq.data
                     /\ \E i \in DOMAIN rq.trace :
                            /\ rq.trace[i].ev = "chat.completions.create"
                            /\ rq.trace[i].fn = "generate_crypto_report"
              /\ Count(rq.trace, "insert_one") <= 1
              /\ "error" \in DOMAIN rq.data => NoInsert(r)
              /\ (rq.entry = "chat_with_openai" /\ Returned(rq) /\
                  rq.ret = RawCompletion) => NoInsert(r)
              /\ (rq.entry = "chat_with_openai" /\ ReturnedDict(rq) /\
                  "report_summary" \notin DOMAIN rq.ret.v) => NoInsert(r)

C21_Witness ==
    \E r \in slots :
        /\ req[r].entry = "chat_with_openai"
        /\ Returned(req[r])
        /\ Len(db) = 1
        /\ db[1].rid = r
        /\ db[1].doc["report_summary"] = "analysis"
        /\ req[r].ret = DictVal(db[1].doc)

====
